---- MODULE Spec2Model ----
(***************************************************************************)
(* A model of primesieve's driver class PrimeSieve                         *)
(* (src/src/soe/PrimeSieve.cpp): configuration setters, the small-prime    *)
(* table, the bootstrap bit-sieve that feeds the PrimeNumberGenerator,     *)
(* status bookkeeping through the parent pointer, and worker objects       *)
(* constructed from a parent.                                              *)
(*                                                                         *)
(* PrimeNumberFinder, PrimeNumberGenerator, ParallelPrimeSieve,            *)
(* bithacks.h and the flag constants of PrimeSieve.h are not part of the   *)
(* sources at hand; they are modelled at the level of their documented     *)
(* contract and are marked as such where they are defined.                 *)
(*                                                                         *)
(* Representation choices:                                                 *)
(*  - a uint64_t is a tuple of four 16-bit limbs, most significant first,  *)
(*    so that the bound UINT64_MAX - UINT32_MAX * 10 is computed and       *)
(*    compared at its real width;                                          *)
(*  - a flags word is the set of the positions of its 1-bits;              *)
(*  - a std::string is a sequence of one-character strings;                *)
(*  - status_ (a double) is the unevaluated quotient sumSegments_/todo,    *)
(*    capped at 1 (= 100 percent); timeElapsed_ (clock readings) and the   *)
(*    console output of PRINT_STATUS are left out.                         *)
(***************************************************************************)
EXTENDS Integers, Sequences, FiniteSets, TLC

(***************************************************************************)
(* Bounds of the model.                                                    *)
(***************************************************************************)
\* largest interval end of SpecSieve and SpecIdem
MaxN == 12
\* largest interval end of SpecSplit
MaxSplitN == 31
\* largest interval end of SpecPar
MaxParN == 8
\* largest fourth root of stop_ tried where the bootstrap sieve runs
MaxRoot == 40
\* number of worker objects constructed from the parent
NumWorkers == 2

(***************************************************************************)
(* 64-bit unsigned arithmetic on four 16-bit limbs.                        *)
(***************************************************************************)
Limb == 2^16

U64(n) == <<0, 0, n \div Limb, n % Limb>>

U64Small(x) == x[1] = 0 /\ x[2] = 0 /\ x[3] < 2^14

\* the value of a limb tuple that fits TLC's integers
Nat64(x) == x[3] * Limb + x[4]

U64Less(x, y) ==
  \/ x[1] < y[1]
  \/ x[1] = y[1] /\ x[2] < y[2]
  \/ x[1] = y[1] /\ x[2] = y[2] /\ x[3] < y[3]
  \/ x[1] = y[1] /\ x[2] = y[2] /\ x[3] = y[3] /\ x[4] < y[4]

U64Leq(x, y) == ~U64Less(y, x)

U64Geq(x, y) == ~U64Less(x, y)

\* x - y modulo 2^64
U64Sub(x, y) ==
  LET d4 == x[4] - y[4]
      b4 == IF d4 < 0 THEN 1 ELSE 0
      d3 == x[3] - y[3] - b4
      b3 == IF d3 < 0 THEN 1 ELSE 0
      d2 == x[2] - y[2] - b3
      b2 == IF d2 < 0 THEN 1 ELSE 0
      d1 == x[1] - y[1] - b2
  IN <<d1 % Limb, d2 % Limb, d3 % Limb, d4 % Limb>>

\* x + y modulo 2^64
U64Add(x, y) ==
  LET s4 == x[4] + y[4]
      s3 == x[3] + y[3] + (s4 \div Limb)
      s2 == x[2] + y[2] + (s3 \div Limb)
      s1 == x[1] + y[1] + (s2 \div Limb)
  IN <<s1 % Limb, s2 % Limb, s3 % Limb, s4 % Limb>>

\* x * m modulo 2^64, for a small factor m
U64Mul(x, m) ==
  LET p4 == x[4] * m
      p3 == x[3] * m + (p4 \div Limb)
      p2 == x[2] * m + (p3 \div Limb)
      p1 == x[1] * m + (p2 \div Limb)
  IN <<p1 % Limb, p2 % Limb, p3 % Limb, p4 % Limb>>

UINT64_MAX == <<Limb - 1, Limb - 1, Limb - 1, Limb - 1>>

UINT32_MAX == <<0, 0, Limb - 1, Limb - 1>>

(***************************************************************************)
(* Arithmetic used to state the properties and by the contract-level       *)
(* collaborators.                                                          *)
(***************************************************************************)
RECURSIVE IsqrtIter(_, _, _)
IsqrtIter(n, lo, hi) ==
  IF hi - lo <= 1 THEN lo
  ELSE LET mid == (lo + hi) \div 2
       IN IF mid * mid <= n THEN IsqrtIter(n, mid, hi) ELSE IsqrtIter(n, lo, mid)

\* floor of the square root, for n < 2^31
Isqrt(n) == IsqrtIter(n, 0, 46341)

IsPrime(n) == n >= 2 /\ \A d \in 2..Isqrt(n) : n % d # 0

Min(S) == CHOOSE x \in S : \A y \in S : x <= y

Max(S) == CHOOSE x \in S : \A y \in S : x >= y

RECURSIVE SortedSeq(_)
SortedSeq(S) ==
  IF S = {} THEN <<>>
  ELSE LET m == Min(S) IN <<m>> \o SortedSeq(S \ {m})

PrimesIn(a, b) == {n \in a..b : IsPrime(n)}

RECURSIVE Pow2GE(_, _)
Pow2GE(p, n) == IF p >= n \/ p >= 2^30 THEN p ELSE Pow2GE(2 * p, n)

IsPow2(n) == \E k \in 0..30 : n = 2^k

(***************************************************************************)
(* Flags (PrimeSieve.h).  COUNT_PRIMES << type is the shift of a one-bit   *)
(* word; the public flags are the low 20 bits, the callback flags lie      *)
(* above them (getFlags masks them away).                                  *)
(***************************************************************************)
COUNT_PRIMES == {0}

COUNT_TWINS == {1}

COUNT_TRIPLETS == {2}

COUNT_QUADRUPLETS == {3}

COUNT_QUINTUPLETS == {4}

COUNT_SEXTUPLETS == {5}

COUNT_SEPTUPLETS == {6}

PRINT_PRIMES == {7}

PRINT_TWINS == {8}

PRINT_STATUS == {14}

CALLBACK32_PRIMES == {20}

CALLBACK32_OOP_PRIMES == {21}

CALLBACK64_PRIMES == {22}

CALLBACK64_OOP_PRIMES == {23}

CALLBACK_FLAGS ==
  CALLBACK32_PRIMES \cup CALLBACK32_OOP_PRIMES \cup CALLBACK64_PRIMES
    \cup CALLBACK64_OOP_PRIMES

\* flags << k
Shl(flags, k) == {b + k : b \in flags}

\* flags >= (1U << 20)
FlagsTooBig(flags) == \E b \in flags : b >= 20

COUNTS_SIZE == 7

SIEVESIZE == 32

PRESIEVE_LIMIT == 19

(***************************************************************************)
(* Objects.  Object 0 is the PrimeSieve made by the default constructor    *)
(* (the ParallelPrimeSieve of the parallel specification); objects         *)
(* 1..NumWorkers are the workers constructed from it.                      *)
(***************************************************************************)
Objs == 0..NumWorkers

Workers == 1..NumWorkers

ZeroCounts == [i \in 0..(COUNTS_SIZE - 1) |-> 0]

\* status_ = -1.0
MinusOne == [num |-> -1, den |-> U64(1)]

\* an object whose constructor has not run
Raw ==
  [start_ |-> U64(0), stop_ |-> U64(0), flags_ |-> {}, sieveSize_ |-> 0,
   preSieveLimit_ |-> 0, counts_ |-> ZeroCounts, sumSegments_ |-> 0,
   status_ |-> MinusOne, parent_ |-> -1,
   callback32_ |-> "unset", callback32_OOP_ |-> "unset",
   callback64_ |-> "unset", callback64_OOP_ |-> "unset", cbObj_ |-> "unset"]

NoErr == "none"

\* the state a call works on: the objects, what the call has handed to the
\* callbacks, printed and asked of the Finder and the Generator so far, and
\* the exception it has thrown
World(objs) ==
  [ps |-> objs, out |-> <<>>, printed |-> <<>>, calls |-> <<>>, err |-> NoErr]

Throw(W, e) == [W EXCEPT !.err = e]

(***************************************************************************)
(* Setters.                                                                *)
(***************************************************************************)
\* the bound of setStart and setStop
MaxStopBound == U64Sub(UINT64_MAX, U64Mul(UINT32_MAX, 10))

setStart_gt(W, o, start) ==
  IF U64Less(MaxStopBound, start)
  THEN Throw(W, "InvalidBound")
  ELSE [W EXCEPT !.ps[o].start_ = start]

setStart(W, o, start) ==
  IF U64Geq(start, MaxStopBound)
  THEN Throw(W, "InvalidBound")
  ELSE [W EXCEPT !.ps[o].start_ = start]

setStop(W, o, stop) ==
  IF U64Geq(stop, MaxStopBound)
  THEN Throw(W, "InvalidBound")
  ELSE [W EXCEPT !.ps[o].stop_ = stop]

\* bithacks.h: the least power of two >= n
nextHighestPowerOf2(n) == Pow2GE(1, n)

setSieveSize_noclamp(W, o, sieveSize) ==
  LET s1 == IF sieveSize < 1 THEN 1 ELSE sieveSize
  IN [W EXCEPT !.ps[o].sieveSize_ = nextHighestPowerOf2(s1)]

setSieveSize(W, o, sieveSize) ==
  LET s1 == IF sieveSize < 1 THEN 1 ELSE sieveSize
      s2 == IF s1 > 4096 THEN 4096 ELSE s1
  IN [W EXCEPT !.ps[o].sieveSize_ = nextHighestPowerOf2(s2)]

setPreSieveLimit(W, o, preSieveLimit) ==
  LET l1 == IF preSieveLimit < 13 THEN 13 ELSE preSieveLimit
      l2 == IF l1 > 23 THEN 23 ELSE l1
  IN [W EXCEPT !.ps[o].preSieveLimit_ = l2]

testFlags(W, o, flags) == (W.ps[o].flags_ \cap flags) # {}

setFlags(W, o, flags) ==
  IF FlagsTooBig(flags)
  THEN Throw(W, "InvalidFlags")
  ELSE [W EXCEPT !.ps[o].flags_ = flags]

addFlags(W, o, flags) ==
  IF FlagsTooBig(flags)
  THEN Throw(W, "InvalidFlags")
  ELSE [W EXCEPT !.ps[o].flags_ = @ \cup flags]

(***************************************************************************)
(* reset and doStatus.                                                     *)
(***************************************************************************)
\* min((sum / todo) * 100.0, 100.0) as a quotient; todo = 0 gives 0/0 (NaN)
\* for sum = 0 and +infinity, capped to 100, otherwise
Percent(sum, todo) ==
  IF todo = U64(0)
  THEN IF sum = 0 THEN [num |-> 0, den |-> U64(0)] ELSE [num |-> 1, den |-> U64(1)]
  ELSE IF sum = 0 THEN [num |-> 0, den |-> U64(1)]
  ELSE IF U64Geq(U64(sum), todo) THEN [num |-> 1, den |-> U64(1)]
  ELSE [num |-> sum, den |-> todo]

\* the two assignments of doStatus, given the new value of sumSegments_
storeStatus(W, p, sum) ==
  LET todo == U64Add(U64Sub(W.ps[p].stop_, W.ps[p].start_), U64(1))
  IN [W EXCEPT !.ps[p].sumSegments_ = sum, !.ps[p].status_ = Percent(sum, todo)]

doStatus(W, p, segment) == storeStatus(W, p, W.ps[p].sumSegments_ + segment)

\* the assignments of reset() to the object itself
resetOwn_keep(W, o) ==
  [W EXCEPT !.ps[o].sumSegments_ = 0, !.ps[o].status_ = MinusOne]

resetOwn(W, o) ==
  [W EXCEPT !.ps[o].sumSegments_ = 0,
            !.ps[o].counts_ = ZeroCounts,
            !.ps[o].status_ = MinusOne]

reset(W, o) == doStatus(resetOwn(W, o), W.ps[o].parent_, 0)

(***************************************************************************)
(* The small-prime table.                                                  *)
(***************************************************************************)
\* character codes of the characters the table's strings are made of
CharCode(c) ==
  CASE c = "0" -> 48 [] c = "1" -> 49 [] c = "2" -> 50 [] c = "3" -> 51
    [] c = "4" -> 52 [] c = "5" -> 53 [] c = "6" -> 54 [] c = "7" -> 55
    [] c = "8" -> 56 [] c = "9" -> 57 [] c = "(" -> 40 [] c = ")" -> 41
    [] c = "," -> 44 [] c = " " -> 32

\* uint32_t prime = primeStr[0] - '0'
\* (the difference is not negative for the rows that reach it, so the
\* conversion to uint32_t leaves it as it is)
FirstDigit_raw(primeStr) == CharCode(primeStr[1])

FirstDigit(primeStr) == CharCode(primeStr[1]) - CharCode("0")

\* one callback invocation
Invoke(W, cb, prime) == [W EXCEPT !.out = Append(@, <<cb, prime>>)]

\* the four callback tests of doSmallPrime, in the order of the code
smallCallbacks(W, o, prime) ==
  LET w1 == IF testFlags(W, o, CALLBACK32_PRIMES)
            THEN Invoke(W, "callback32_", prime) ELSE W
      w2 == IF testFlags(w1, o, CALLBACK32_OOP_PRIMES)
            THEN Invoke(w1, "callback32_OOP_", prime) ELSE w1
      w3 == IF testFlags(w2, o, CALLBACK64_PRIMES)
            THEN Invoke(w2, "callback64_", prime) ELSE w2
  IN IF testFlags(w3, o, CALLBACK64_OOP_PRIMES)
     THEN Invoke(w3, "callback64_OOP_", prime) ELSE w3

\* the else-branch of doSmallPrime: count and print
smallCountPrint_parent(W, o, type, primeStr) ==
  LET w1 == IF testFlags(W, o, Shl(COUNT_PRIMES, type))
            THEN [W EXCEPT !.ps[W.ps[o].parent_].counts_[type] = @ + 1] ELSE W
  IN IF testFlags(w1, o, Shl(PRINT_PRIMES, type))
     THEN [w1 EXCEPT !.printed = Append(@, primeStr)] ELSE w1

smallCountPrint(W, o, type, primeStr) ==
  LET w1 == IF testFlags(W, o, Shl(COUNT_PRIMES, type))
            THEN [W EXCEPT !.ps[o].counts_[type] = @ + 1] ELSE W
  IN IF testFlags(w1, o, Shl(PRINT_PRIMES, type))
     THEN [w1 EXCEPT !.printed = Append(@, primeStr)] ELSE w1

doSmallPrime_strict(W, o, min, max, type, primeStr) ==
  IF U64Less(W.ps[o].start_, U64(min)) /\ U64Geq(W.ps[o].stop_, U64(max))
  THEN IF testFlags(W, o, CALLBACK_FLAGS) /\ type = 0
       THEN smallCallbacks(W, o, FirstDigit(primeStr))
       ELSE smallCountPrint(W, o, type, primeStr)
  ELSE W

doSmallPrime_min(W, o, min, max, type, primeStr) ==
  IF U64Leq(W.ps[o].start_, U64(min)) /\ U64Geq(W.ps[o].stop_, U64(min))
  THEN IF testFlags(W, o, CALLBACK_FLAGS) /\ type = 0
       THEN smallCallbacks(W, o, FirstDigit(primeStr))
       ELSE smallCountPrint(W, o, type, primeStr)
  ELSE W

doSmallPrime(W, o, min, max, type, primeStr) ==
  IF U64Leq(W.ps[o].start_, U64(min)) /\ U64Geq(W.ps[o].stop_, U64(max))
  THEN IF testFlags(W, o, CALLBACK_FLAGS) /\ type = 0
       THEN smallCallbacks(W, o, FirstDigit(primeStr))
       ELSE smallCountPrint(W, o, type, primeStr)
  ELSE W

\* the rows of the table in sieve(): min, max, type, primeStr
SmallTable ==
  << <<2, 2, 0, <<"2">> >>,
     <<3, 3, 0, <<"3">> >>,
     <<5, 5, 0, <<"5">> >>,
     <<3, 5, 1, <<"(", "3", ",", " ", "5", ")">> >>,
     <<5, 7, 1, <<"(", "5", ",", " ", "7", ")">> >>,
     <<5, 11, 2, <<"(", "5", ",", " ", "7", ",", " ", "1", "1", ")">> >>,
     <<5, 13, 3, <<"(", "5", ",", " ", "7", ",", " ", "1", "1", ",", " ",
                   "1", "3", ")">> >>,
     <<5, 17, 4, <<"(", "5", ",", " ", "7", ",", " ", "1", "1", ",", " ",
                   "1", "3", ",", " ", "1", "7", ")">> >> >>

\* row k of the table
smallRow(W, o, k) ==
  doSmallPrime(W, o, SmallTable[k][1], SmallTable[k][2], SmallTable[k][3],
               SmallTable[k][4])

\* rows k..Len(SmallTable), in order
RECURSIVE smallRows(_, _, _)
smallRows(W, o, k) ==
  IF k > Len(SmallTable) THEN W ELSE smallRows(smallRow(W, o, k), o, k + 1)

(***************************************************************************)
(* The bootstrap sieve of sieve(): a bit vector of 32-bit words, every     *)
(* word starting as 0xAAAAAAAA.                                            *)
(***************************************************************************)
\* the 1-bits of 0xAAAAAAAA
WordAA == {b \in 0..31 : b % 2 = 1}

\* std::vector<uint32_t> isPrime(N / 32 + 1, 0xAAAAAAAAU)
bootVector(N) == [w \in 0..(N \div 32) |-> WordAA]

\* isPrime[i >> 5] & (1 << (i & 31))
bootTest(isPrime, i) == (i % 32) \in isPrime[i \div 32]

\* isPrime[j >> 5] &= ~(1 << (j & 31))
bootClear(isPrime, j) == [isPrime EXCEPT ![j \div 32] = @ \ {j % 32}]

\* the start of the inner loop
bootFirst_late(i) == i * i + 2 * i

bootFirst(i) == i * i

\* for (j = ...; j <= N; j += i * 2)
RECURSIVE bootCross(_, _, _, _)
bootCross(isPrime, j, i, N) ==
  IF j <= N THEN bootCross(bootClear(isPrime, j), j + i * 2, i, N) ELSE isPrime

\* for (i = 3; i * i <= N; i += 2)
RECURSIVE bootOuter(_, _, _)
bootOuter(isPrime, i, N) ==
  IF i * i <= N
  THEN bootOuter(IF bootTest(isPrime, i)
                 THEN bootCross(isPrime, bootFirst(i), i, N)
                 ELSE isPrime, i + 2, N)
  ELSE isPrime

\* for (i = preSieveLimit + 1; i <= N; i++): the arguments of generator.sieve
RECURSIVE bootFeed(_, _, _)
bootFeed(isPrime, i, N) ==
  IF i <= N
  THEN (IF bootTest(isPrime, i) THEN <<i>> ELSE <<>>) \o bootFeed(isPrime, i + 1, N)
  ELSE <<>>

\* the whole bootstrap: the sequence of calls generator.sieve(i)
bootstrap(N, preSieveLimit) ==
  bootFeed(bootOuter(bootVector(N), 3, N), preSieveLimit + 1, N)

(***************************************************************************)
(* PrimeNumberFinder and PrimeNumberGenerator, at the level of their       *)
(* contract: the Finder reports the primes >= 7 of [start_, stop_] in      *)
(* ascending order and the k-tuplets that lie in it, as the flags ask.     *)
(***************************************************************************)
Call(W, c) == [W EXCEPT !.calls = Append(@, c)]

RECURSIVE Decimal(_)
Decimal(n) ==
  LET d == <<"0", "1", "2", "3", "4", "5", "6", "7", "8", "9">>[(n % 10) + 1]
  IN IF n < 10 THEN <<d>> ELSE Decimal(n \div 10) \o <<d>>

RECURSIVE JoinDecimal(_)
JoinDecimal(q) ==
  IF Len(q) = 1 THEN Decimal(q[1])
  ELSE Decimal(q[1]) \o <<",", " ">> \o JoinDecimal(Tail(q))

\* the text of a prime or of a tuplet, given as its ascending members
PrimeStr(q) == IF Len(q) = 1 THEN Decimal(q[1]) ELSE <<"(">> \o JoinDecimal(q) \o <<")">>

\* the residues, within one byte of 30 numbers, of the tuplets of each arity
TupletPatterns(k) ==
  CASE k = 1 -> {{7}, {11}, {13}, {17}, {19}, {23}, {29}, {31}}
    [] k = 2 -> {{11, 13}, {17, 19}, {29, 31}}
    [] k = 3 -> {{7, 11, 13}, {11, 13, 17}, {13, 17, 19}, {17, 19, 23}}
    [] k = 4 -> {{11, 13, 17, 19}}
    [] k = 5 -> {{7, 11, 13, 17, 19}, {11, 13, 17, 19, 23}}
    [] k = 6 -> {{7, 11, 13, 17, 19, 23}}
    [] k = 7 -> {{11, 13, 17, 19, 23, 29, 31}}

\* the k-tuplets of primes all of whose members lie in lo..hi
finderTuplets(k, lo, hi) ==
  {t \in {{30 * b + r : r \in pat} : b \in (lo \div 30 - 1)..(hi \div 30),
                                      pat \in TupletPatterns(k)} :
     (\A n \in t : n >= lo /\ n <= hi /\ IsPrime(n))}

\* the same, ascending by smallest member, each as its ascending members
RECURSIVE TupletSeq(_)
TupletSeq(T) ==
  IF T = {} THEN <<>>
  ELSE LET t == CHOOSE x \in T : \A y \in T : Min(x) <= Min(y)
       IN <<SortedSeq(t)>> \o TupletSeq(T \ {t})

finderFound(W, o, k) ==
  TupletSeq(finderTuplets(k, Max({7, Nat64(W.ps[o].start_)}), Nat64(W.ps[o].stop_)))

RECURSIVE InvokeAll(_, _, _)
InvokeAll(W, o, q) ==
  IF q = <<>> THEN W ELSE InvokeAll(smallCallbacks(W, o, q[1][1]), o, Tail(q))

RECURSIVE PrintAll(_, _)
PrintAll(W, q) ==
  IF q = <<>> THEN W
  ELSE PrintAll([W EXCEPT !.printed = Append(@, PrimeStr(q[1]))], Tail(q))

\* what segmentProcessed does for arity type + 1 over the whole interval
finderType(W, o, type) ==
  LET w1 == IF testFlags(W, o, Shl(COUNT_PRIMES, type))
            THEN [W EXCEPT !.ps[o].counts_[type] = @ + Len(finderFound(W, o, type + 1))]
            ELSE W
      w2 == IF testFlags(w1, o, Shl(PRINT_PRIMES, type))
            THEN PrintAll(w1, finderFound(W, o, type + 1)) ELSE w1
  IN IF type = 0 /\ testFlags(w2, o, CALLBACK_FLAGS)
     THEN InvokeAll(w2, o, finderFound(W, o, 1)) ELSE w2

RECURSIVE finderTypes(_, _, _)
finderTypes(W, o, type) ==
  IF type >= COUNTS_SIZE THEN W ELSE finderTypes(finderType(W, o, type), o, type + 1)

\* finder.finish()
finderFinish(W, o) == finderTypes(Call(W, <<"finder.finish", 0>>), o, 0)

\* finder.needGenerator()
needGenerator(W, o) ==
  Nat64(W.ps[o].stop_) >= (W.ps[o].preSieveLimit_ + 1) * (W.ps[o].preSieveLimit_ + 1)

\* generator.getSquareRoot(): the generator sieves up to sqrt(stop_)
generatorSquareRoot(W, o) == Isqrt(Isqrt(Nat64(W.ps[o].stop_)))

\* generator.getPreSieveLimit()
generatorPreSieveLimit(W, o) == W.ps[o].preSieveLimit_

RECURSIVE generatorSieveAll(_, _)
generatorSieveAll(W, q) ==
  IF q = <<>> THEN W
  ELSE generatorSieveAll(Call(W, <<"generator.sieve", q[1]>>), Tail(q))

(***************************************************************************)
(* sieve().                                                                *)
(***************************************************************************)
\* the block "if (finder.needGenerator())" of sieve()
sieveGenerator(W, o) ==
  LET w1 == Call(W, <<"PrimeNumberGenerator", 0>>)
      w2 == generatorSieveAll(w1, bootstrap(generatorSquareRoot(W, o),
                                           generatorPreSieveLimit(W, o)))
  IN Call(w2, <<"generator.finish", 0>>)

\* the block "if (stop_ >= 7)" of sieve()
sieveFinder(W, o) ==
  LET w1 == Call(W, <<"PrimeNumberFinder", 0>>)
      w2 == IF needGenerator(w1, o) THEN sieveGenerator(w1, o) ELSE w1
  IN finderFinish(w2, o)

\* sieve() after its reset() and interval check
sieveBody(W, o) ==
  LET w1 == IF U64Leq(W.ps[o].start_, U64(5)) THEN smallRows(W, o, 1) ELSE W
      w2 == IF U64Geq(w1.ps[o].stop_, U64(7)) THEN sieveFinder(w1, o) ELSE w1
  IN doStatus(w2, w2.ps[o].parent_, 10)

sieve_late(W, o) ==
  IF U64Less(W.ps[o].stop_, W.ps[o].start_)
  THEN Throw(W, "InvalidInterval")
  ELSE sieveBody(reset(W, o), o)

sieve(W, o) ==
  LET w1 == reset(W, o)
  IN IF U64Less(w1.ps[o].stop_, w1.ps[o].start_)
     THEN Throw(w1, "InvalidInterval")
     ELSE sieveBody(w1, o)

\* sieve(start, stop)
sieve2(W, o, start, stop) ==
  LET w1 == setStart(W, o, start)
      w2 == IF w1.err = NoErr THEN setStop(w1, o, stop) ELSE w1
  IN IF w2.err = NoErr THEN sieve(w2, o) ELSE w2

\* getPrimeCount(start, stop); the value returned is counts_[0]
getPrimeCount(W, o, start, stop) ==
  LET w1 == setFlags(W, o, COUNT_PRIMES)
  IN IF w1.err = NoErr THEN sieve2(w1, o, start, stop) ELSE w1

\* the pointer a variant of generatePrimes stores and the flag it sets
CallbackField(variant) ==
  CASE variant = CALLBACK32_PRIMES -> "callback32_"
    [] variant = CALLBACK32_OOP_PRIMES -> "callback32_OOP_"
    [] variant = CALLBACK64_PRIMES -> "callback64_"
    [] variant = CALLBACK64_OOP_PRIMES -> "callback64_OOP_"

IsOOP(variant) == variant \in {CALLBACK32_OOP_PRIMES, CALLBACK64_OOP_PRIMES}

\* the four overloads of generatePrimes; isNull: callback (or cbObj) is NULL
generatePrimes(W, o, variant, start, stop, isNull) ==
  IF isNull
  THEN Throw(W, "InvalidCallback")
  ELSE LET w1 == [W EXCEPT !.ps[o] =
                    [@ EXCEPT ![CallbackField(variant)] = "f",
                              !.cbObj_ = IF IsOOP(variant) THEN "obj" ELSE @,
                              !.flags_ = variant]]
       IN sieve2(setPreSieveLimit(w1, o, 13), o, start, stop)

(***************************************************************************)
(* Constructors.                                                           *)
(***************************************************************************)
\* PrimeSieve::PrimeSieve()
construct(W, o) ==
  LET w1 == [W EXCEPT !.ps[o] = [Raw EXCEPT !.start_ = U64(0), !.stop_ = U64(0),
                                           !.flags_ = COUNT_PRIMES, !.parent_ = o]]
      w2 == setSieveSize(w1, o, SIEVESIZE)
      w3 == setPreSieveLimit(w2, o, PRESIEVE_LIMIT)
  IN reset(w3, o)

\* PrimeSieve::PrimeSieve(ParallelPrimeSieve*): start_ and stop_ are not
\* initialised and hold whatever the caller's memory held (junk)
constructWorker(W, o, parent, junk) ==
  LET p  == W.ps[parent]
      w1 == [W EXCEPT !.ps[o] = [Raw EXCEPT !.start_ = junk[1], !.stop_ = junk[2],
                                           !.sieveSize_ = p.sieveSize_,
                                           !.preSieveLimit_ = p.preSieveLimit_,
                                           !.flags_ = p.flags_,
                                           !.parent_ = parent]]
      w2 == IF testFlags(w1, o, CALLBACK_FLAGS)
            THEN [w1 EXCEPT !.ps[o] = [@ EXCEPT !.callback32_ = p.callback32_,
                                              !.callback32_OOP_ = p.callback32_OOP_,
                                              !.callback64_ = p.callback64_,
                                              !.callback64_OOP_ = p.callback64_OOP_,
                                              !.cbObj_ = p.cbObj_]]
            ELSE w1
  IN reset(w2, o)

(***************************************************************************)
(* State.                                                                  *)
(***************************************************************************)
VARIABLES
  ps,       \* the objects: ps[o] is the record of the members of object o
  out,      \* the callback invocations of the last call, in order
  printed,  \* the lines the last call printed, in order
  calls,    \* what the last call asked of the Finder and the Generator
  last,     \* the last call: operation, arguments, flags_ it ran under, exception
  arg,      \* the interval ends the calls of a behaviour are made with
  first,    \* SpecIdem: the first sieving call made on the object and its results
  split,    \* SpecSplit: the counts of the three runs
  pc,       \* SpecPar: where each worker stands in its sieve()
  reg       \* SpecPar: the parent's sumSegments_ a worker has loaded

vars == <<ps, out, printed, calls, last, arg, first, split, pc, reg>>

NoCall ==
  [op |-> "none", o |-> 0, a |-> U64(0), b |-> U64(0), n |-> 0, f |-> {},
   flags |-> {}, err |-> NoErr]

NoRun ==
  [op |-> "none", a |-> U64(0), b |-> U64(0), flags |-> {}, err |-> NoErr,
   counts |-> ZeroCounts, out |-> <<>>, printed |-> <<>>, later |-> FALSE]

NoSplit == [step |-> 0, left |-> ZeroCounts, right |-> ZeroCounts, whole |-> ZeroCounts]

\* the state after PrimeSieve ps; the workers are not constructed yet
InitObjects ==
  /\ ps = construct(World([o \in Objs |-> Raw]), 0).ps
  /\ out = <<>>
  /\ printed = <<>>
  /\ calls = <<>>
  /\ last = NoCall
  /\ first = NoRun
  /\ split = NoSplit
  /\ pc = [w \in Workers |-> "absent"]
  /\ reg = [w \in Workers |-> 0]

\* a call ends: its effects and its exception become visible
Commit(R, l) ==
  /\ ps' = R.ps
  /\ out' = R.out
  /\ printed' = R.printed
  /\ calls' = R.calls
  /\ last' = [l EXCEPT !.err = R.err]

(***************************************************************************)
(* Arguments tried.                                                        *)
(***************************************************************************)
SieveSizeArgs == {0, 3, 4096, 4097, 2147483647}

PreSieveArgs == {0, 12, 13, 23, 24, 2147483647}

\* the bound the interface documents for start and stop: 2^64 - 10 * 2^32
DocBound == <<Limb - 1, Limb - 10, 0, 0>>

BoundArgs ==
  {U64(0), U64(10), U64Sub(DocBound, U64(1)), DocBound, U64Add(DocBound, U64(1)),
   U64Sub(MaxStopBound, U64(1)), MaxStopBound, U64Add(MaxStopBound, U64(1)),
   UINT64_MAX}

Variants ==
  {CALLBACK32_PRIMES, CALLBACK32_OOP_PRIMES, CALLBACK64_PRIMES, CALLBACK64_OOP_PRIMES}

AllCounts == 0..(COUNTS_SIZE - 1)

SetFlagsArgs == {AllCounts \cup PRINT_PRIMES \cup PRINT_TWINS, {20}}

AddFlagsArgs == {COUNT_PRIMES, {21}}

\* sieving is modelled for intervals that fit TLC's integers; a call with a
\* larger argument is tried where it throws before the Finder is made
Sievable(a, b) ==
  \/ U64Small(a) /\ U64Small(b)
  \/ U64Geq(a, MaxStopBound)
  \/ U64Geq(b, MaxStopBound)
  \/ U64Less(b, a)

(***************************************************************************)
(* The calls on the object ps[0].                                          *)
(***************************************************************************)
SetStart(v) ==
  /\ Commit(setStart(World(ps), 0, v), [NoCall EXCEPT !.op = "setStart", !.a = v])
  /\ UNCHANGED <<arg, first, split, pc, reg>>

SetStop(v) ==
  /\ Commit(setStop(World(ps), 0, v), [NoCall EXCEPT !.op = "setStop", !.b = v])
  /\ UNCHANGED <<arg, first, split, pc, reg>>

SetSieveSize(n) ==
  /\ Commit(setSieveSize(World(ps), 0, n), [NoCall EXCEPT !.op = "setSieveSize", !.n = n])
  /\ UNCHANGED <<arg, first, split, pc, reg>>

SetPreSieveLimit(n) ==
  /\ Commit(setPreSieveLimit(World(ps), 0, n),
            [NoCall EXCEPT !.op = "setPreSieveLimit", !.n = n])
  /\ UNCHANGED <<arg, first, split, pc, reg>>

SetFlags(f) ==
  /\ Commit(setFlags(World(ps), 0, f), [NoCall EXCEPT !.op = "setFlags", !.f = f])
  /\ UNCHANGED <<arg, first, split, pc, reg>>

AddFlags(f) ==
  /\ Commit(addFlags(World(ps), 0, f), [NoCall EXCEPT !.op = "addFlags", !.f = f])
  /\ UNCHANGED <<arg, first, split, pc, reg>>

SieveCall(a, b) ==
  /\ Sievable(a, b)
  /\ Commit(sieve2(World(ps), 0, a, b),
            [NoCall EXCEPT !.op = "sieve", !.a = a, !.b = b, !.flags = ps[0].flags_])
  /\ UNCHANGED <<arg, pc, reg>>

GetPrimeCountCall(a, b) ==
  /\ Sievable(a, b)
  /\ Commit(getPrimeCount(World(ps), 0, a, b),
            [NoCall EXCEPT !.op = "getPrimeCount", !.a = a, !.b = b,
                           !.flags = COUNT_PRIMES])
  /\ UNCHANGED <<arg, pc, reg>>

GeneratePrimesCall(variant, a, b, isNull) ==
  /\ Sievable(a, b)
  /\ Commit(generatePrimes(World(ps), 0, variant, a, b, isNull),
            [NoCall EXCEPT !.op = "generatePrimes", !.a = a, !.b = b,
                           !.f = variant, !.flags = variant])
  /\ UNCHANGED <<arg, pc, reg>>

Sieve(a, b) == SieveCall(a, b) /\ UNCHANGED <<first, split>>

GetPrimeCount(a, b) == GetPrimeCountCall(a, b) /\ UNCHANGED <<first, split>>

GeneratePrimes(variant, a, b, isNull) ==
  GeneratePrimesCall(variant, a, b, isNull) /\ UNCHANGED <<first, split>>

\* PrimeSieve worker(parent) for worker w, whatever w was before
NewWorker(w, junk) ==
  /\ Commit(constructWorker(World(ps), w, 0, junk),
            [NoCall EXCEPT !.op = "PrimeSieve", !.o = w])
  /\ UNCHANGED <<arg, first, split, pc, reg>>

(***************************************************************************)
(* Spec: the configuration calls, sieving calls and worker construction.   *)
(***************************************************************************)
NoArg == [a |-> U64(0), b |-> U64(0), c |-> U64(0), v |-> {}]


Junk == {<<U64(0), U64(0)>>, <<U64(9), U64(3)>>}

Init == InitObjects /\ arg = NoArg

Next ==
  \/ \E n \in SieveSizeArgs : SetSieveSize(n)
  \/ \E n \in PreSieveArgs : SetPreSieveLimit(n)
  \/ Sieve(U64(0), U64(MaxN))
  \/ GeneratePrimes(CALLBACK64_PRIMES, U64(0), U64(MaxN), FALSE)
  \/ \E junk \in Junk : NewWorker(1, junk)

Spec == Init /\ [][Next]_vars

(***************************************************************************)
(* SpecBound: the bounds of start and stop.  A behaviour works with two    *)
(* values, arg.a and arg.b.                                                *)
(***************************************************************************)
InitBound ==
  /\ InitObjects
  /\ \E a, b \in BoundArgs : arg = [NoArg EXCEPT !.a = a, !.b = b]

NextBound ==
  \/ \E v \in {arg.a, arg.b} : SetStart(v)
  \/ \E v \in {arg.a, arg.b} : SetStop(v)
  \/ Sieve(arg.a, arg.b)

SpecBound == InitBound /\ [][NextBound]_vars

(***************************************************************************)
(* SpecSieve: counting and generating over every interval up to MaxN,      *)
(* under the flags the interface can reach.  A behaviour works with the    *)
(* ends arg.a <= arg.b and one overload of generatePrimes, arg.v.          *)
(***************************************************************************)
Ends == {U64(n) : n \in 0..MaxN}

InitSieve ==
  /\ InitObjects
  /\ \E a, b \in Ends, v \in Variants :
       U64Leq(a, b) /\ arg = [NoArg EXCEPT !.a = a, !.b = b, !.v = v]

NextSieve ==
  \/ GetPrimeCount(arg.a, arg.b)
  \/ \E isNull \in BOOLEAN : GeneratePrimes(arg.v, arg.a, arg.b, isNull)
  \/ Sieve(arg.a, arg.b)
  \/ Sieve(arg.b, arg.a)
  \/ \E f \in SetFlagsArgs : SetFlags(f)
  \/ \E f \in AddFlagsArgs : AddFlags(f)

SpecSieve == InitSieve /\ [][NextSieve]_vars

(***************************************************************************)
(* SpecIdem: sieving calls repeated on one object.  first keeps the first  *)
(* sieving call, made on the object as constructed, and what it produced.  *)
(***************************************************************************)
Note ==
  first' = IF first.op = "none"
           THEN [op |-> last'.op, a |-> last'.a, b |-> last'.b,
                 flags |-> last'.flags, err |-> last'.err,
                 counts |-> ps'[0].counts_, out |-> out', printed |-> printed',
                 later |-> FALSE]
           ELSE [first EXCEPT !.later = TRUE]

IdemSieve(a, b) == SieveCall(a, b) /\ Note /\ UNCHANGED split

IdemGetPrimeCount(a, b) == GetPrimeCountCall(a, b) /\ Note /\ UNCHANGED split

IdemGeneratePrimes(variant, a, b) ==
  GeneratePrimesCall(variant, a, b, FALSE) /\ Note /\ UNCHANGED split

InitIdem ==
  /\ InitObjects
  /\ \E a \in {U64(0), U64(3), U64(6)}, b \in Ends :
       U64Leq(a, b) /\ arg = [NoArg EXCEPT !.a = a, !.b = b]

NextIdem ==
  \/ IdemSieve(arg.a, arg.b)
  \/ IdemSieve(U64(0), U64(MaxN))
  \/ IdemGetPrimeCount(arg.a, arg.b)
  \/ IdemGeneratePrimes(CALLBACK64_OOP_PRIMES, arg.a, arg.b)
  \/ SetFlags(AllCounts \cup PRINT_PRIMES \cup PRINT_TWINS)
  \/ AddFlags(COUNT_PRIMES)

SpecIdem == InitIdem /\ [][NextIdem]_vars

(***************************************************************************)
(* SpecSplit: sieve(a, c), sieve(c + 1, b) and sieve(a, b) under all the   *)
(* COUNT flags, for a <= c < b <= MaxSplitN.                               *)
(***************************************************************************)
SplitEnds == {U64(n) : n \in 0..MaxSplitN}

InitSplit ==
  /\ InitObjects
  /\ \E a, c, b \in SplitEnds :
       /\ U64Leq(a, c) /\ U64Less(c, b)
       /\ arg = [NoArg EXCEPT !.a = a, !.b = b, !.c = c]

SplitFlags ==
  /\ split.step = 0
  /\ Commit(setFlags(World(ps), 0, AllCounts),
            [NoCall EXCEPT !.op = "setFlags", !.f = AllCounts])
  /\ split' = [split EXCEPT !.step = 1]
  /\ UNCHANGED <<arg, first, pc, reg>>

SplitLeft ==
  /\ split.step = 1
  /\ SieveCall(arg.a, arg.c)
  /\ split' = [split EXCEPT !.step = 2, !.left = ps'[0].counts_]
  /\ UNCHANGED first

SplitRight ==
  /\ split.step = 2
  /\ SieveCall(U64Add(arg.c, U64(1)), arg.b)
  /\ split' = [split EXCEPT !.step = 3, !.right = ps'[0].counts_]
  /\ UNCHANGED first

SplitWhole ==
  /\ split.step = 3
  /\ SieveCall(arg.a, arg.b)
  /\ split' = [split EXCEPT !.step = 4, !.whole = ps'[0].counts_]
  /\ UNCHANGED first

NextSplit == SplitFlags \/ SplitLeft \/ SplitRight \/ SplitWhole

SpecSplit == InitSplit /\ [][NextSplit]_vars

(***************************************************************************)
(* SpecBoot: sieve() where the Finder needs a Generator; stop_ is a fourth *)
(* power, or one less, so that generator.getSquareRoot() takes every value *)
(* up to MaxRoot.                                                          *)
(***************************************************************************)
BootStops == {r * r * r * r - d : r \in 13..MaxRoot, d \in {0, 1}}

InitBoot ==
  /\ InitObjects
  /\ \E b \in BootStops, w \in {0, 2} :
       arg = [NoArg EXCEPT !.a = U64(b - w), !.b = U64(b)]

NextBoot ==
  \/ \E n \in {13, 19, 23} : SetPreSieveLimit(n)
  \/ Sieve(arg.a, arg.b)
  \/ GeneratePrimes(CALLBACK64_PRIMES, arg.a, arg.b, FALSE)

SpecBoot == InitBoot /\ [][NextBoot]_vars

(***************************************************************************)
(* SpecPar: the parent (object 0) hands the sub-intervals of               *)
(* [arg.a, arg.b], of equal width, to NumWorkers workers, which run        *)
(* sieve(lo, hi) concurrently; when all are done it adds up their counts.  *)
(* A worker's sieve() is cut where it touches the parent: each             *)
(* parent_->doStatus(segment) is a load of the parent's sumSegments_ and   *)
(* a store, with no lock in between.                                       *)
(***************************************************************************)
Width == (Nat64(arg.b) - Nat64(arg.a) + 1) \div NumWorkers

Lo(w) == Nat64(arg.a) + (w - 1) * Width

Hi(w) == IF w = NumWorkers THEN Nat64(arg.b) ELSE Lo(w) + Width - 1

InitPar ==
  /\ InitObjects
  /\ \E a, b \in {U64(n) : n \in 0..MaxParN} :
       /\ Nat64(b) - Nat64(a) + 1 >= NumWorkers
       /\ arg = [NoArg EXCEPT !.a = a, !.b = b]

Keep(R) ==
  /\ ps' = R.ps
  /\ out' = out \o R.out
  /\ printed' = printed \o R.printed
  /\ calls' = calls \o R.calls

\* ParallelPrimeSieve::sieve() begins: flags, interval, reset of the parent
ParBegin(f) ==
  /\ last.op = "none"
  /\ LET w1 == setFlags(World(ps), 0, f)
         w2 == setStop(setStart(w1, 0, arg.a), 0, arg.b)
     IN Commit(reset(w2, 0), [NoCall EXCEPT !.op = "parallel", !.a = arg.a,
                                            !.b = arg.b, !.flags = f])
  /\ pc' = [w \in Workers |-> "new"]
  /\ UNCHANGED <<arg, first, split, reg>>

\* PrimeSieve worker(parent)
ParConstruct(w, junk) ==
  /\ pc[w] = "new"
  /\ Keep(constructWorker(World(ps), w, 0, junk))
  /\ pc' = [pc EXCEPT ![w] = "ready"]
  /\ UNCHANGED <<last, arg, first, split, reg>>

\* worker.sieve(lo, hi) up to the assignments of reset()
ParEnter(w) ==
  /\ pc[w] = "ready"
  /\ Keep(resetOwn(setStop(setStart(World(ps), w, U64(Lo(w))), w, U64(Hi(w))), w))
  /\ pc' = [pc EXCEPT ![w] = "load0"]
  /\ UNCHANGED <<last, arg, first, split, reg>>

\* parent_->doStatus(segment): sumSegments_ is read ...
ParLoad(w) ==
  /\ pc[w] \in {"load0", "load10"}
  /\ reg' = [reg EXCEPT ![w] = ps[ps[w].parent_].sumSegments_]
  /\ pc' = [pc EXCEPT ![w] = IF pc[w] = "load0" THEN "store0" ELSE "store10"]
  /\ UNCHANGED <<ps, out, printed, calls, last, arg, first, split>>

\* ... and written, with status_
ParStore(w) ==
  /\ pc[w] \in {"store0", "store10"}
  /\ Keep(storeStatus(World(ps), ps[w].parent_,
                      reg[w] + (IF pc[w] = "store0" THEN 0 ELSE 10)))
  /\ pc' = [pc EXCEPT ![w] = IF pc[w] = "store0" THEN "body" ELSE "done"]
  /\ UNCHANGED <<last, arg, first, split, reg>>

\* the interval check, the table and the Finder
ParBody(w) ==
  /\ pc[w] = "body"
  /\ LET w1 == IF U64Leq(ps[w].start_, U64(5)) THEN smallRows(World(ps), w, 1)
               ELSE World(ps)
         w2 == IF U64Geq(ps[w].stop_, U64(7)) THEN sieveFinder(w1, w) ELSE w1
     IN Keep(w2)
  /\ pc' = [pc EXCEPT ![w] = "load10"]
  /\ UNCHANGED <<last, arg, first, split, reg>>

RECURSIVE SumCounts(_, _)
SumCounts(objs, w) ==
  IF w = 0 THEN ZeroCounts
  ELSE [k \in 0..(COUNTS_SIZE - 1) |-> objs[w].counts_[k] + SumCounts(objs, w - 1)[k]]

\* all workers are done: their counts are added to the parent's
ParJoin ==
  /\ \A w \in Workers : pc[w] = "done"
  /\ ps' = [ps EXCEPT ![0].counts_ =
              [k \in 0..(COUNTS_SIZE - 1) |-> @[k] + SumCounts(ps, NumWorkers)[k]]]
  /\ pc' = [w \in Workers |-> "joined"]
  /\ UNCHANGED <<out, printed, calls, last, arg, first, split, reg>>

NextPar ==
  \/ \E f \in {COUNT_PRIMES, AllCounts} : ParBegin(f)
  \/ \E w \in Workers, junk \in Junk : ParConstruct(w, junk)
  \/ \E w \in Workers : ParEnter(w)
  \/ \E w \in Workers : ParLoad(w)
  \/ \E w \in Workers : ParStore(w)
  \/ \E w \in Workers : ParBody(w)
  \/ ParJoin

SpecPar == InitPar /\ [][NextPar]_vars

(***************************************************************************)
(* Properties.                                                             *)
(***************************************************************************)
SievingOps == {"sieve", "getPrimeCount", "generatePrimes"}

\* the primes among 2, 3, 5 and the primes from 7 on in [a, b]
SmallIn(a, b) == {2, 3, 5} \cap (a..b)

BigIn(a, b) == IF b >= 7 THEN PrimesIn(Max({7, a}), b) ELSE {}

\* C1: getPrimeCount(a, b) returns the number of primes in [a, b]; for
\* b <= 6 no Finder is made, the table alone decides the result.
C1_PrimeCount ==
  (last.op = "getPrimeCount" /\ last.err = NoErr) =>
    /\ ps[0].counts_[0] = Cardinality(PrimesIn(Nat64(last.a), Nat64(last.b)))
    /\ (Nat64(last.b) <= 6 => calls = <<>>)
    /\ (Nat64(last.b) >= 7 => calls # <<>>)

C1_Witness ==
  /\ last.op = "getPrimeCount" /\ last.err = NoErr
  /\ last.a = U64(3) /\ last.b = U64(11)
  /\ ps[0].counts_[0] = 4

\* the invocations a callback overload must see for the primes of q
Delivered(field, q) == [i \in 1..Len(q) |-> <<field, q[i]>>]

\* C2: generatePrimes(a, b, f) calls f once for each prime of [a, b] and
\* for nothing else, in ascending order (so 2, 3, 5 come first and only
\* when they lie in [a, b]).
C2_GenerateAscending ==
  (last.op = "generatePrimes" /\ last.err = NoErr) =>
    out = Delivered(CallbackField(last.f),
                    SortedSeq(PrimesIn(Nat64(last.a), Nat64(last.b))))

C2_Witness ==
  /\ last.op = "generatePrimes" /\ last.err = NoErr
  /\ last.a = U64(3) /\ last.b = U64(11)
  /\ Len(out) = 4

\* C5: a sieve() that throws InvalidInterval has counted, printed and
\* delivered nothing, has made no Finder or Generator, and leaves all seven
\* counts zero.
C5_NoPartialResult ==
  (last.op \in SievingOps /\ last.err = "InvalidInterval") =>
    /\ ps[0].counts_ = ZeroCounts
    /\ out = <<>>
    /\ printed = <<>>
    /\ calls = <<>>

C5_Witness ==
  /\ last.op = "sieve" /\ last.err = "InvalidInterval"
  /\ last.a = U64(11) /\ last.b = U64(2)
  /\ AllCounts \subseteq last.flags

\* C10: a sieve() under COUNT_PRIMES counts each of 2, 3, 5 that lies in
\* [start, stop] once, on top of what the Finder counts, whether or not a
\* callback flag is set as well.
C10_SmallPrimesCounted ==
  (last.op = "sieve" /\ last.err = NoErr /\ COUNT_PRIMES \subseteq last.flags) =>
    ps[0].counts_[0] = Cardinality(SmallIn(Nat64(last.a), Nat64(last.b)))
                         + Cardinality(BigIn(Nat64(last.a), Nat64(last.b)))

\* the bound of setStart and setStop as the code computes it:
\* (2^64 - 1) - (2^32 - 1) * 10 = 2^64 - 10 * 2^32 + 9
CodeBound == <<Limb - 1, Limb - 10, 0, 9>>

\* C4 as claimed: v is accepted iff v < 2^64 - 10 * 2^32.
C4_DocBound ==
  /\ last.op = "setStart" => (last.err = NoErr <=> U64Less(last.a, DocBound))
  /\ last.op = "setStop" => (last.err = NoErr <=> U64Less(last.b, DocBound))

C4_Accepts ==
  /\ last.op = "setStart" =>
       /\ last.err = NoErr <=> U64Less(last.a, CodeBound)
       /\ last.err = NoErr => ps[0].start_ = last.a
       /\ last.err # NoErr => last.err = "InvalidBound"
  /\ last.op = "setStop" =>
       /\ last.err = NoErr <=> U64Less(last.b, CodeBound)
       /\ last.err = NoErr => ps[0].stop_ = last.b
       /\ last.err # NoErr => last.err = "InvalidBound"
  /\ last.op = "sieve" =>
       (last.err = "InvalidBound" <=>
          (U64Geq(last.a, CodeBound) \/ U64Geq(last.b, CodeBound)))

C4_RejectKeeps ==
  (last'.op \in {"setStart", "setStop"} /\ last'.err # NoErr) => ps' = ps

\* C4, amended: setStart(v) and setStop(v) accept v iff
\* v < (2^64 - 1) - (2^32 - 1) * 10 = 2^64 - 10 * 2^32 + 9; an accepted
\* value is stored, a rejected one throws InvalidBound and leaves start_
\* and stop_ as they were.
C4_CodeBound == []C4_Accepts /\ [][C4_RejectKeeps]_vars

C4_Witness ==
  /\ last.op = "setStop" /\ last.err = NoErr
  /\ last.b = U64Sub(CodeBound, U64(1))
  /\ ps[0].stop_ = U64Sub(CodeBound, U64(1))

Clamp(n, lo, hi) == IF n < lo THEN lo ELSE IF n > hi THEN hi ELSE n

LeastPow2(n) == CHOOSE p \in {2^k : k \in 0..12} :
                  p >= n /\ \A q \in {2^k : k \in 0..12} : q >= n => p <= q

\* C7: in every reachable state sieveSize_ is a power of two in [1, 4096]
\* and preSieveLimit_ is in [13, 23], for the object and for a worker
\* constructed from it; setSieveSize(s) stores the least power of two
\* >= clamp(s, 1, 4096) and setPreSieveLimit(l) stores clamp(l, 13, 23).
C7_ConfigRange ==
  /\ \A o \in Objs : ps[o].parent_ # -1 =>
       /\ IsPow2(ps[o].sieveSize_)
       /\ ps[o].sieveSize_ >= 1 /\ ps[o].sieveSize_ <= 4096
       /\ ps[o].preSieveLimit_ >= 13 /\ ps[o].preSieveLimit_ <= 23
  /\ last.op = "setSieveSize" => ps[0].sieveSize_ = LeastPow2(Clamp(last.n, 1, 4096))
  /\ last.op = "setPreSieveLimit" => ps[0].preSieveLimit_ = Clamp(last.n, 13, 23)
  /\ last.op = "generatePrimes" => ps[0].preSieveLimit_ = 13

C7_Witness ==
  /\ last.op = "setSieveSize" /\ last.n = 4097
  /\ ps[0].sieveSize_ = 4096
  /\ ps[1].parent_ = 0 /\ ps[1].sieveSize_ = 4

(***************************************************************************)
(* Prime k-tuplets, as sets of numbers: the constellations counted under   *)
(* counts_[k], k = 1 (twins) to 6 (septuplets), by their offsets from the  *)
(* smallest member.                                                        *)
(***************************************************************************)
Shapes(k) ==
  CASE k = 1 -> {{0, 2}}
    [] k = 2 -> {{0, 2, 6}, {0, 4, 6}}
    [] k = 3 -> {{0, 2, 6, 8}}
    [] k = 4 -> {{0, 2, 6, 8, 12}, {0, 4, 6, 10, 12}}
    [] k = 5 -> {{0, 4, 6, 10, 12, 16}}
    [] k = 6 -> {{0, 2, 6, 8, 12, 18, 20}}

\* the k-tuplets all of whose members lie in [x, y]
TupletsIn(k, x, y) ==
  {t \in {{p + d : d \in s} : p \in x..y, s \in Shapes(k)} :
     \A q \in t : q <= y /\ IsPrime(q)}

\* those of [a, b] with smallest member <= c < largest member
Straddling(k, a, c, b) ==
  {t \in TupletsIn(k, a, b) : (\E q \in t : q <= c) /\ (\E q \in t : q > c)}

Arities == 1..(COUNTS_SIZE - 1)

\* C3 as stated: for every arity and a <= c < b the tuplet counts of
\* sieve(a, c) and sieve(c + 1, b) add up to the count of sieve(a, b), a
\* tuplet straddling c being counted where its smallest member lies.
C3_SplitAdds ==
  split.step = 4 =>
    \A k \in Arities : split.left[k] + split.right[k] = split.whole[k]

\* C3: sieve(x, y) counts exactly the k-tuplets all of whose members lie in
\* [x, y] (a table tuplet iff x <= its smallest and its largest member <= y),
\* so count_k(a, c) + count_k(c + 1, b) is count_k(a, b) less the number of
\* k-tuplets of [a, b] that straddle c.
C3_SplitLosesStraddlers ==
  split.step = 4 =>
    LET a == Nat64(arg.a)
        c == Nat64(arg.c)
        b == Nat64(arg.b)
    IN \A k \in Arities :
         /\ split.left[k] = Cardinality(TupletsIn(k, a, c))
         /\ split.right[k] = Cardinality(TupletsIn(k, c + 1, b))
         /\ split.whole[k] = Cardinality(TupletsIn(k, a, b))
         /\ split.left[k] + split.right[k]
              = split.whole[k] - Cardinality(Straddling(k, a, c, b))

C3_Witness ==
  /\ split.step = 4
  /\ arg.a = U64(3) /\ arg.c = U64(6) /\ arg.b = U64(20)
  /\ split.left[1] = 1 /\ split.right[1] = 2 /\ split.whole[1] = 4

\* the call just made is the first sieving call of the object over again
SameCall ==
  /\ last.op = first.op
  /\ last.a = first.a /\ last.b = first.b
  /\ last.flags = first.flags

\* sieve(a, b) of the last call, run on an object as constructed that was
\* given the flags and callbacks the last call ran under
FreshRun ==
  LET f == construct(World([o \in Objs |-> Raw]), 0)
      g == [f EXCEPT !.ps[0].flags_ = last.flags,
                     !.ps[0].callback32_ = ps[0].callback32_,
                     !.ps[0].callback32_OOP_ = ps[0].callback32_OOP_,
                     !.ps[0].callback64_ = ps[0].callback64_,
                     !.ps[0].callback64_OOP_ = ps[0].callback64_OOP_,
                     !.ps[0].cbObj_ = ps[0].cbObj_]
  IN sieve2(g, 0, last.a, last.b)

\* C6: whatever sieving calls came before, sieve(a, b) leaves the seven
\* counts, the sequence of callback invocations and the printed lines that
\* an object as constructed produces with the same flags, and a sieving call
\* with the interval and flags of the first call on the object leaves what
\* that first call left; a call that fails leaves the segment sum at the
\* zero of reset().
C6_Idempotent ==
  /\ last.op = "sieve" =>
       /\ ps[0].counts_ = FreshRun.ps[0].counts_
       /\ out = FreshRun.out
       /\ printed = FreshRun.printed
       /\ last.err = FreshRun.err
  /\ (last.op \in SievingOps /\ SameCall) =>
       /\ ps[0].counts_ = first.counts
       /\ out = first.out
       /\ printed = first.printed
       /\ last.err = first.err
  /\ (last.op \in SievingOps /\ last.err = "InvalidInterval") =>
       ps[0].sumSegments_ = 0

C6_Witness ==
  /\ first.later /\ SameCall
  /\ last.op = "sieve" /\ last.err = NoErr
  /\ ps[0].counts_[0] > 0 /\ ps[0].counts_[1] > 0
  /\ printed # <<>>

\* the sieving primes the Generator must be fed
BootPrimes(preSieveLimit, N) ==
  LET q == SortedSeq(PrimesIn(preSieveLimit + 1, N))
  IN [i \in 1..Len(q) |-> <<"generator.sieve", q[i]>>]

\* C9: when sieve() makes a Generator, generator.sieve(i) is called once for
\* each prime i with preSieveLimit < i <= N, N = generator.getSquareRoot(),
\* for nothing else, in ascending order, then generator.finish(), then
\* finder.finish().
C9_BootstrapFeeds ==
  (/\ last.op \in SievingOps /\ last.err = NoErr
   /\ \E i \in 1..Len(calls) : calls[i][1] = "PrimeNumberGenerator") =>
    calls = <<<<"PrimeNumberFinder", 0>>, <<"PrimeNumberGenerator", 0>>>>
            \o BootPrimes(ps[0].preSieveLimit_, Isqrt(Isqrt(Nat64(last.b))))
            \o <<<<"generator.finish", 0>>, <<"finder.finish", 0>>>>

C9_Witness ==
  /\ last.op = "sieve" /\ last.err = NoErr
  /\ Len(calls) > 8
  /\ calls[3] = <<"generator.sieve", 17>>
  /\ calls[Len(calls) - 2] = <<"generator.sieve", 37>>

\* worker w takes a step of its sieve(lo, hi)
WorkerStep(w) ==
  /\ pc[w] \in {"ready", "load0", "store0", "body", "load10", "store10"}
  /\ pc'[w] # pc[w]

\* C8 as stated: while the workers run, a worker writes only its own state,
\* never state of the parent or of another worker.
C8_NoSharedWrites ==
  [][\A w \in Workers : WorkerStep(w) =>
       /\ ps'[0] = ps[0]
       /\ \A v \in Workers \ {w} : ps'[v] = ps[v]]_vars

\* what sieve(x, y) must count under flags
Counted(flags, x, y) ==
  [k \in 0..(COUNTS_SIZE - 1) |->
     IF ~ (k \in flags) THEN 0
     ELSE IF k = 0 THEN Cardinality(PrimesIn(x, y))
     ELSE Cardinality(TupletsIn(k, x, y))]

\* C8: a running worker writes its own state and, through
\* parent_->doStatus(), the parent's sumSegments_ and status_; it writes
\* nothing else of the parent and nothing of another worker, so under every
\* interleaving each worker ends with the counts of its sub-interval and the
\* parent with their sum.
C8_OnlyParentStatus ==
  /\ [][\A w \in Workers : WorkerStep(w) =>
          /\ ps'[0] = [ps[0] EXCEPT !.sumSegments_ = ps'[0].sumSegments_,
                                    !.status_ = ps'[0].status_]
          /\ \A v \in Workers \ {w} : ps'[v] = ps[v]]_vars
  /\ [](\A w \in Workers :
          pc[w] \in {"load10", "store10", "done", "joined"} =>
            ps[w].counts_ = Counted(last.flags, Lo(w), Hi(w)))
  /\ []((\A w \in Workers : pc[w] = "joined") =>
          ps[0].counts_ = [k \in 0..(COUNTS_SIZE - 1) |->
                             SumCounts(ps, NumWorkers)[k]])

C8_Witness ==
  /\ \A w \in Workers : pc[w] = "joined"
  /\ ps[0].counts_[0] = 4 /\ ps[1].counts_[0] > 0
  /\ ps[0].sumSegments_ >= 10

====
